---- MODULE Spec2Model ----
(***************************************************************************)
(* errdecode: compilation of classification rules into a rule index, the   *)
(* default encoder backed by that index, the construction-time options and *)
(* Decoder.Translate.                                                      *)
(***************************************************************************)
EXTENDS Integers, Sequences, FiniteSets, TLC

\* Longest rule slice handed to New.
MaxRules == 2

\* Longest option slice handed to New.
MaxOptions == 2

(***************************************************************************)
(* Values                                                                  *)
(***************************************************************************)

\* The nil MatcherFunc of a rule that declares no Match.
Nil == "nil"

\* Error values whose dynamic type is comparable (pointers, as errors.New
\* returns): Go's == on them is identity, and they can key a map.
Comparable == {"errClient1", "errClient2", "errCustom"}

\* An error value whose dynamic type is not comparable (a slice type with an
\* Error method): hashing it as a map key is a run-time panic.
Uncomparable == {"errSlice"}

Errs == Comparable \cup Uncomparable

\* err.Error() of each error value.
ErrText(e) ==
    CASE e = "errClient1" -> "client error 1"
      [] e = "errClient2" -> "client error 2"
      [] e = "errCustom"  -> "custom error"
      [] OTHER            -> "slice error"

\* Rule.Code: the rules' codes are not 0, which is the encoder's answer for
\* an unclassified error.
Codes == {1000, 1001}

\* Rule.Message
Messages == {"error.client", "error.custom"}

\* Rule.Match: always true (the catch-all), or true of the custom error type.
Matchers == {"matchAll", "matchCustom"}

\* matcher(err)
Matches(m, e) ==
    CASE m = "matchAll"    -> TRUE
      [] m = "matchCustom" -> e = "errCustom"
      [] OTHER             -> FALSE

\* Rule.Errors
ErrLists == {<<>>, <<"errClient1">>, <<"errClient1", "errClient2">>, <<"errSlice">>}

Rule == [Code : Codes, Message : Messages, Errors : ErrLists, Match : Matchers \cup {Nil}]

Range(s) == {s[i] : i \in 1..Len(s)}

\* Go maps as functions; a key is present iff it is in the DOMAIN.
EmptyMap == [k \in {} |-> 0]

Put(m, k, v) == [x \in DOMAIN m \cup {k} |-> IF x = k THEN v ELSE m[x]]

\* m[k] of a map[int]string: the zero value "" for a missing key.
GetMessage(m, k) == IF k \in DOMAIN m THEN m[k] ELSE ""

VARIABLES
    pc,             \* "index": in newRuleIndex's loop; "ready": New returned
                    \* the Decoder; "panic": New panicked
    rs,             \* the rules ranged over so far (all of them once New is past the loop)
    codeToMatcher,  \* ruleIndex.codeToMatcher
    codeToMessage,  \* ruleIndex.codeToMessage
    errToCode,      \* ruleIndex.errToCode
    encoder,        \* Decoder.encoder: "default" or a caller's encoder
    msgTranslator,  \* Decoder.msgTranslator: "default" or a caller's translator
    call            \* the last Translate call: its argument and what it did

vars == <<pc, rs, codeToMatcher, codeToMessage, errToCode, encoder, msgTranslator, call>>

(***************************************************************************)
(* newRuleIndex                                                            *)
(***************************************************************************)

\* The part of rule.Errors the inner loop stores before it meets a key that
\* cannot be hashed (all of it when every value is comparable).
RECURSIVE Storable(_)
Storable(errs) ==
    IF errs = <<>> \/ Head(errs) \notin Comparable
    THEN <<>>
    ELSE <<Head(errs)>> \o Storable(Tail(errs))

\* Mutation: a code keeps the first message recorded for it.
RecordMessageKeepFirst(m, rule) ==
    IF rule.Code \in DOMAIN m THEN m ELSE Put(m, rule.Code, rule.Message)

\* Mutation: the message is recorded only for a rule that declares no Match.
RecordMessageUnlessMatcher(m, rule) ==
    IF rule.Match = Nil THEN Put(m, rule.Code, rule.Message) ELSE m

\* codeToMessage[code] = rule.Message
RecordMessage(m, rule) == Put(m, rule.Code, rule.Message)

\* if rule.Match != nil { codeToMatcher[code] = rule.Match }
RecordMatcher(m, rule) ==
    IF rule.Match # Nil THEN Put(m, rule.Code, rule.Match) ELSE m

\* Mutation: an error value keeps the first code recorded for it.
RECURSIVE RecordErrorsKeepFirst(_, _, _)
RecordErrorsKeepFirst(m, errs, code) ==
    IF errs = <<>>
    THEN m
    ELSE RecordErrorsKeepFirst(IF Head(errs) \in DOMAIN m THEN m ELSE Put(m, Head(errs), code),
                               Tail(errs), code)

\* for _, e := range rule.Errors { errToCode[e] = code }
RECURSIVE RecordErrors(_, _, _)
RecordErrors(m, errs, code) ==
    IF errs = <<>>
    THEN m
    ELSE RecordErrors(Put(m, Head(errs), code), Tail(errs), code)

\* One iteration of newRuleIndex's loop, on the next rule of the slice.
IndexRule(rule) ==
    /\ pc = "index"
    /\ Len(rs) < MaxRules
    /\ rs' = Append(rs, rule)
    /\ codeToMessage' = RecordMessage(codeToMessage, rule)
    /\ codeToMatcher' = RecordMatcher(codeToMatcher, rule)
    /\ errToCode' = RecordErrors(errToCode, Storable(rule.Errors), rule.Code)
    /\ pc' = IF Len(Storable(rule.Errors)) < Len(rule.Errors) THEN "panic" ELSE "index"
    /\ UNCHANGED <<encoder, msgTranslator, call>>

(***************************************************************************)
(* New and its options                                                     *)
(***************************************************************************)

\* Encoder(enc) with a caller's encoder, Message(t) with a caller's translator.
Options == {[kind |-> "Encoder", fn |-> "encCustom"], [kind |-> "Message", fn |-> "msgCustom"]}

\* The option slices handed to New.
OptionSeqs == UNION {[1..n -> Options] : n \in 0..MaxOptions}

\* option(d)
ApplyOption(d, opt) ==
    IF opt.kind = "Encoder"
    THEN [d EXCEPT !.encoder = opt.fn]
    ELSE [d EXCEPT !.msgTranslator = opt.fn]

\* for _, option := range options { option(d) }
RECURSIVE ApplyOptions(_, _)
ApplyOptions(d, options) ==
    IF options = <<>>
    THEN d
    ELSE ApplyOptions(ApplyOption(d, Head(options)), Tail(options))

\* The rule slice is exhausted: newRuleIndex returns, New builds the Decoder
\* around the default encoder and the default translator, applies the options
\* in order and returns it.
New(options) ==
    /\ pc = "index"
    /\ pc' = "ready"
    /\ LET d == ApplyOptions([encoder |-> "default", msgTranslator |-> "default"], options)
       IN  /\ encoder' = d.encoder
           /\ msgTranslator' = d.msgTranslator
    /\ UNCHANGED <<rs, codeToMatcher, codeToMessage, errToCode, call>>

(***************************************************************************)
(* Encoders and translators                                                *)
(***************************************************************************)

\* The orders in which a range over a map with key set S may visit it.
Orders(S) ==
    {o \in [1..Cardinality(S) -> S] : \A i, j \in DOMAIN o : o[i] = o[j] => i = j}

\* Mutation: the test of the matcher's answer is inverted.
FirstNonMatch(order, err) ==
    LET hits == {i \in DOMAIN order : ~Matches(codeToMatcher[order[i]], err)}
    IN  IF hits = {} THEN 0 ELSE CHOOSE i \in hits : \A j \in hits : i <= j

\* The position in order of the first code whose matcher reports a match, 0
\* when none does.
FirstMatch(order, err) ==
    LET hits == {i \in DOMAIN order : Matches(codeToMatcher[order[i]], err)}
    IN  IF hits = {} THEN 0 ELSE CHOOSE i \in hits : \A j \in hits : i <= j

\* Mutation: the matchers are tried before the identity lookup.
DefaultEncoderPredicatesFirst(err, order) ==
    IF err \notin Comparable
    THEN [code |-> 0, msg |-> "", consulted |-> {}, panicked |-> TRUE]
    ELSE LET k == FirstMatch(order, err)
         IN  IF k # 0
             THEN [code |-> order[k], msg |-> GetMessage(codeToMessage, order[k]),
                   consulted |-> {order[i] : i \in 1..k}, panicked |-> FALSE]
             ELSE IF err \in DOMAIN errToCode
             THEN [code |-> errToCode[err], msg |-> GetMessage(codeToMessage, errToCode[err]),
                   consulted |-> Range(order), panicked |-> FALSE]
             ELSE [code |-> 0, msg |-> "", consulted |-> Range(order), panicked |-> FALSE]

\* The default encoder on err, the range over codeToMatcher taken in order:
\* the (code, message) it returns, the codes whose matcher it invoked, and
\* whether it panicked hashing err.
DefaultEncoder(err, order) ==
    IF err \notin Comparable
    THEN [code |-> 0, msg |-> "", consulted |-> {}, panicked |-> TRUE]
    ELSE IF err \in DOMAIN errToCode
    THEN [code |-> errToCode[err], msg |-> GetMessage(codeToMessage, errToCode[err]),
          consulted |-> {}, panicked |-> FALSE]
    ELSE LET k == FirstMatch(order, err)
         IN  IF k # 0
             THEN [code |-> order[k], msg |-> GetMessage(codeToMessage, order[k]),
                   consulted |-> {order[i] : i \in 1..k}, panicked |-> FALSE]
             ELSE [code |-> 0, msg |-> "", consulted |-> Range(order), panicked |-> FALSE]

\* A caller's encoder that ignores the rules: a switch on the error value
\* with a catch-all, and one value it leaves unclassified.
CustomEncoder(err) ==
    CASE err = "errClient1" ->
            [code |-> 1001, msg |-> "error.custom", consulted |-> {}, panicked |-> FALSE]
      [] err = "errCustom" ->
            [code |-> 0, msg |-> "", consulted |-> {}, panicked |-> FALSE]
      [] OTHER ->
            [code |-> 1000, msg |-> "An unknown error occurred.", consulted |-> {}, panicked |-> FALSE]

\* Mutation: Translate calls the default encoder whatever the option set.
EncodeIgnoresOption(err, order) == DefaultEncoder(err, order)

\* d.encoder(err)
Encode(err, order) ==
    IF encoder = "default" THEN DefaultEncoder(err, order) ELSE CustomEncoder(err)

\* defaultMessageTranslator
DefaultMessageTranslator(msg) == msg

\* A caller's translator: a key-based lookup that falls back to the key.
CustomMessageTranslator(msg) ==
    IF msg = "error.custom" THEN "Translated custom error." ELSE msg

\* d.msgTranslator(msg)
TranslateMessage(msg) ==
    IF msgTranslator = "default"
    THEN DefaultMessageTranslator(msg)
    ELSE CustomMessageTranslator(msg)

(***************************************************************************)
(* Decoder.Translate and matchedError                                      *)
(***************************************************************************)

\* What Translate returns: err itself (tag "error"), or a *matchedError.
PassThrough(err) == [tag |-> "error", code |-> 0, err |-> err, msg |-> ""]

MatchedError(code, err, msg) == [tag |-> "matched", code |-> code, err |-> err, msg |-> msg]

\* v.(ClassifiedError) succeeds
IsClassified(v) == v.tag = "matched"

\* (*matchedError).Code
Code(v) == v.code

\* (*matchedError).Unwrap
Unwrap(v) == v.err

\* v.Error(): matchedError's msg, or the error value's own text.
ErrorText(v) == IF v.tag = "matched" THEN v.msg ELSE ErrText(v.err)

\* Mutation: the matchedError does not keep the error it was built for.
TranslateReturnLosesErr(err, enc) ==
    IF enc.code = 0
    THEN PassThrough(err)
    ELSE MatchedError(enc.code, "none", TranslateMessage(enc.msg))

\* Mutation: the matchedError keeps the encoder's message untranslated.
TranslateReturnUntranslated(err, enc) ==
    IF enc.code = 0
    THEN PassThrough(err)
    ELSE MatchedError(enc.code, err, enc.msg)

\* The value Translate returns once the encoder answered enc.
TranslateReturn(err, enc) ==
    IF enc.code = 0
    THEN PassThrough(err)
    ELSE MatchedError(enc.code, err, TranslateMessage(enc.msg))

\* The messages Translate hands to d.msgTranslator.
TranslateArgs(enc) == IF enc.code = 0 THEN {} ELSE {enc.msg}

NoCall ==
    [err |-> "none", code |-> 0, msg |-> "", consulted |-> {}, translated |-> {},
     panicked |-> FALSE, ret |-> PassThrough("none")]

\* The orders the encoder's range loop may take: the default encoder ranges
\* over codeToMatcher, a caller's encoder over nothing.
IterationOrders ==
    IF encoder = "default" THEN Orders(DOMAIN codeToMatcher) ELSE {<<>>}

\* d.Translate(err)
Translate(err) ==
    /\ pc = "ready"
    /\ \E order \in IterationOrders :
         LET enc == Encode(err, order)
         IN  call' = IF enc.panicked
                     THEN [err |-> err, code |-> 0, msg |-> "", consulted |-> {},
                           translated |-> {}, panicked |-> TRUE, ret |-> PassThrough("none")]
                     ELSE [err |-> err, code |-> enc.code, msg |-> enc.msg,
                           consulted |-> enc.consulted, translated |-> TranslateArgs(enc),
                           panicked |-> FALSE, ret |-> TranslateReturn(err, enc)]
    /\ UNCHANGED <<pc, rs, codeToMatcher, codeToMessage, errToCode, encoder, msgTranslator>>

(***************************************************************************)
(* Specification                                                           *)
(***************************************************************************)

Init ==
    /\ pc = "index"
    /\ rs = <<>>
    /\ codeToMatcher = EmptyMap
    /\ codeToMessage = EmptyMap
    /\ errToCode = EmptyMap
    /\ encoder = "default"
    /\ msgTranslator = "default"
    /\ call = NoCall

Next ==
    \/ \E rule \in Rule : IndexRule(rule)
    \/ \E options \in OptionSeqs : New(options)
    \/ \E err \in Errs : Translate(err)

Spec == Init /\ [][Next]_vars

(***************************************************************************)
(* Vocabulary of the properties                                            *)
(***************************************************************************)

Max(S) == CHOOSE x \in S : \A y \in S : y <= x

\* The positions of the rules that list e in Errors, that carry code c, and
\* that carry code c and declare a Match.
Listing(e) == {i \in 1..Len(rs) : e \in Range(rs[i].Errors)}

WithCode(c) == {i \in 1..Len(rs) : rs[i].Code = c}

Declaring(c) == {i \in 1..Len(rs) : rs[i].Code = c /\ rs[i].Match # Nil}

\* The positions of the rules whose Match reports e.
Matching(e) == {i \in 1..Len(rs) : rs[i].Match # Nil /\ Matches(rs[i].Match, e)}

\* The codes of the index whose recorded matcher reports e.
MatchingCodes(e) == {c \in DOMAIN codeToMatcher : Matches(codeToMatcher[c], e)}

\* Translate was called on the Decoder; it returned.
Called == pc = "ready" /\ call.err \in Errs

Returned == Called /\ ~call.panicked

\* errors.Is(v, target), v a value Translate returned and target an error
\* value of the model: v is target, or v wraps it.
ErrorsIs(v, target) == IF IsClassified(v) THEN Unwrap(v) = target ELSE v.err = target

(***************************************************************************)
(* C1: pass-through.  With the default encoder, Translate of an error that *)
(* no rule lists and no rule's Match reports returns that error itself;    *)
(* and whenever the encoder answers code 0, Translate returns its argument *)
(* unchanged.                                                              *)
(***************************************************************************)
C1_PassThrough ==
    Called =>
        /\ (encoder = "default" /\ Listing(call.err) = {} /\ Matching(call.err) = {})
              => (~call.panicked /\ call.ret = PassThrough(call.err))
        /\ (Returned /\ call.code = 0) => call.ret = PassThrough(call.err)

(***************************************************************************)
(* C2: known-error classification.  As claimed: for every rule r with a    *)
(* non-zero code and every error e that r lists, Translate(e) on the       *)
(* default Decoder is a ClassifiedError with r's code and r's message.     *)
(***************************************************************************)
C2_KnownErrorEveryRule ==
    (Called /\ encoder = "default" /\ msgTranslator = "default") =>
        \A i \in Listing(call.err) :
            rs[i].Code # 0 =>
                /\ ~call.panicked
                /\ IsClassified(call.ret)
                /\ Code(call.ret) = rs[i].Code
                /\ ErrorText(call.ret) = rs[i].Message

(***************************************************************************)
(* C2, amended: when the LAST rule that lists e has a non-zero code c,     *)
(* Translate(e) on the default Decoder is a ClassifiedError with code c    *)
(* whose text is the message of the last rule with code c.                 *)
(***************************************************************************)
C2_KnownErrorLastRule ==
    (Called /\ encoder = "default" /\ msgTranslator = "default" /\ Listing(call.err) # {}) =>
        LET c == rs[Max(Listing(call.err))].Code
        IN  c # 0 =>
                /\ ~call.panicked
                /\ IsClassified(call.ret)
                /\ Code(call.ret) = c
                /\ ErrorText(call.ret) = rs[Max(WithCode(c))].Message

\* Two rules with different non-zero codes list the translated error.
C2_Witness ==
    /\ Called /\ encoder = "default" /\ msgTranslator = "default"
    /\ Cardinality({rs[i].Code : i \in Listing(call.err)} \ {0}) = 2
    /\ IsClassified(call.ret)

(***************************************************************************)
(* C3: predicate classification, in its catch-all case.  As claimed: with  *)
(* a single rule whose Match is always true (and whose code is not 0),     *)
(* Translate of every error on the default Decoder is a ClassifiedError    *)
(* with that rule's code and message.                                      *)
(***************************************************************************)
C3_CatchAllClassifiesEvery ==
    (Called /\ encoder = "default" /\ msgTranslator = "default"
        /\ Len(rs) = 1 /\ rs[1].Match = "matchAll" /\ rs[1].Code # 0) =>
        /\ ~call.panicked
        /\ IsClassified(call.ret)
        /\ Code(call.ret) = rs[1].Code
        /\ ErrorText(call.ret) = rs[1].Message

(***************************************************************************)
(* C4: identity precedence.  As claimed: when a rule r1 lists e and        *)
(* another rule r2, of a different code, has a Match that reports e, the   *)
(* default encoder answers r1's code, never r2's, and consults no matcher. *)
(***************************************************************************)
C4_IdentityEveryLister ==
    (Returned /\ encoder = "default") =>
        \A i \in Listing(call.err) : \A j \in Matching(call.err) \ {i} :
            rs[i].Code # rs[j].Code =>
                /\ call.code = rs[i].Code
                /\ call.code # rs[j].Code
                /\ call.consulted = {}

(***************************************************************************)
(* C4, amended: when some rule lists e, the default encoder answers the    *)
(* code the identity lookup holds for e, which is the code of the LAST     *)
(* rule that lists e, whatever the matchers report, and consults none.     *)
(***************************************************************************)
C4_IdentityPrecedence ==
    (Called /\ encoder = "default" /\ Listing(call.err) # {}) =>
        /\ ~call.panicked
        /\ call.code = errToCode[call.err]
        /\ call.code = rs[Max(Listing(call.err))].Code
        /\ call.consulted = {}

\* The translated error is listed by a rule and reported by the matcher the
\* index holds for another code.
C4_Witness ==
    /\ Returned /\ encoder = "default"
    /\ Listing(call.err) # {}
    /\ MatchingCodes(call.err) \ {call.code} # {}

C6_EncoderOverride ==
    (Called /\ encoder = "encCustom") =>
        LET f == CustomEncoder(call.err)
        IN  /\ ~call.panicked
            /\ call.consulted = {}
            /\ f.code = 0 => call.ret = PassThrough(call.err)
            /\ f.code # 0 =>
                  /\ IsClassified(call.ret)
                  /\ Code(call.ret) = f.code
                  /\ ErrorText(call.ret) = TranslateMessage(f.msg)
                  /\ Unwrap(call.ret) = call.err

\* The rules list the translated error under a code that is not the one the
\* caller's encoder answers.
C6_Witness ==
    /\ Called /\ encoder = "encCustom"
    /\ call.err \in DOMAIN errToCode
    /\ errToCode[call.err] # CustomEncoder(call.err).code
    /\ IsClassified(call.ret)

(***************************************************************************)
(* C7: translator scope.  Under a caller's translator t, a classified      *)
(* error's text is t(m), m the encoder's message; on the pass-through path *)
(* t is not applied and the returned value's text is the error's own.      *)
(***************************************************************************)
C7_TranslatorScope ==
    (Returned /\ msgTranslator = "msgCustom") =>
        /\ call.code # 0 =>
              /\ ErrorText(call.ret) = CustomMessageTranslator(call.msg)
              /\ call.translated = {call.msg}
        /\ call.code = 0 =>
              /\ call.translated = {}
              /\ ErrorText(call.ret) = ErrText(call.err)

\* A classified error whose message the caller's translator changes.
C7_Witness ==
    /\ Returned /\ msgTranslator = "msgCustom"
    /\ call.code # 0
    /\ CustomMessageTranslator(call.msg) # call.msg

(***************************************************************************)
(* C8: deterministic lookup.  As claimed: two successive calls of the      *)
(* default encoder on the same error answer the same (code, message).      *)
(***************************************************************************)
C8_DeterministicAlways ==
    [][(Called /\ encoder = "default" /\ call'.err = call.err)
          => (call'.code = call.code /\ call'.msg = call.msg)]_vars

(***************************************************************************)
(* C8, amended: two successive calls of the default encoder on the same    *)
(* error e have the same outcome (the same code and message, or the same   *)
(* panic) provided e is a key of errToCode, or cannot be hashed, or at     *)
(* most one code's recorded matcher reports e.                             *)
(***************************************************************************)
C8_DeterministicUnlessOverlap ==
    [][(Called /\ encoder = "default" /\ call'.err = call.err
          /\ (\/ call.err \in DOMAIN errToCode
              \/ call.err \notin Comparable
              \/ Cardinality(MatchingCodes(call.err)) <= 1))
          => (/\ call'.code = call.code
              /\ call'.msg = call.msg
              /\ call'.panicked = call.panicked)]_vars

\* A call that visited a matcher that does not report the error before the
\* only one that does.
C8_Witness ==
    /\ Returned /\ encoder = "default"
    /\ call.err \notin DOMAIN errToCode
    /\ Cardinality(MatchingCodes(call.err)) = 1
    /\ Cardinality(call.consulted) = 2
    /\ call.code # 0

(***************************************************************************)
(* C9: last write wins.  After newRuleIndex has ranged over rules,         *)
(* errToCode[e] is the code of the last rule listing e, codeToMessage[c]   *)
(* the message of the last rule with code c, and codeToMatcher[c] the      *)
(* Match of the last rule with code c that declares one.                   *)
(***************************************************************************)
C9_LastWriteWins ==
    pc \in {"index", "ready"} =>
        /\ \A e \in Errs : Listing(e) # {} =>
              e \in DOMAIN errToCode /\ errToCode[e] = rs[Max(Listing(e))].Code
        /\ \A c \in Codes : WithCode(c) # {} =>
              c \in DOMAIN codeToMessage /\ codeToMessage[c] = rs[Max(WithCode(c))].Message
        /\ \A c \in Codes : Declaring(c) # {} =>
              c \in DOMAIN codeToMatcher /\ codeToMatcher[c] = rs[Max(Declaring(c))].Match

\* Two rules of one code with different messages and different matchers,
\* both listing an error.
C9_Witness ==
    /\ pc = "ready"
    /\ \E i, j \in 1..Len(rs) :
          /\ i < j
          /\ rs[i].Code = rs[j].Code
          /\ rs[i].Message # rs[j].Message
          /\ rs[i].Match # Nil /\ rs[j].Match # Nil /\ rs[i].Match # rs[j].Match
          /\ Listing("errClient1") = {i, j}

(***************************************************************************)
(* C10: rule index invariant.  After any prefix of the rules, every key of *)
(* codeToMatcher and every value of errToCode is a key of codeToMessage;   *)
(* so a non-zero code the default encoder answers has its message there.   *)
(***************************************************************************)
C10_IndexInvariant ==
    /\ DOMAIN codeToMatcher \subseteq DOMAIN codeToMessage
    /\ {errToCode[e] : e \in DOMAIN errToCode} \subseteq DOMAIN codeToMessage
    /\ (Returned /\ encoder = "default" /\ call.code # 0) =>
          /\ call.code \in DOMAIN codeToMessage
          /\ call.msg = codeToMessage[call.code]

\* A proper prefix after which the index holds a matcher and a listed error.
C10_Witness ==
    /\ pc = "index"
    /\ Len(rs) = 1
    /\ DOMAIN codeToMatcher # {}
    /\ DOMAIN errToCode # {}

====
